---- MODULE Spec2Model ----
(***************************************************************************)
(* Model of scripts/export_sentence_transformer.py: the command line       *)
(* (main), the exporter (export_model) and the verifier                    *)
(* (verify_onnx_model), run as one sequential process per invocation over  *)
(* a filesystem that persists between invocations.                         *)
(*                                                                         *)
(* The external collaborators (os, optimum, transformers, onnxruntime) are *)
(* the environment: each call to them either returns or raises, chosen     *)
(* nondeterministically, and what they write or report is drawn from small *)
(* sets.  Console output is modelled only where a claim is about it: the   *)
(* per-output verdict lines of the verifier (report).                      *)
(***************************************************************************)
EXTENDS Integers, Sequences, FiniteSets, TLC

\* ------------------------------------------------------------------ bounds
\* How many times the script is run against the same filesystem.
MaxRuns == 2
\* Longest list of declared output tensors of an artifact (VerifySpec).
MaxOutputs == 2

\* ------------------------------------------------------- program constants
\* The registry, MODELS.
MODELS ==
  [k \in { "all-MiniLM-L6-v2", "paraphrase-MiniLM-L3-v2", "all-MiniLM-L12-v2",
           "all-mpnet-base-v2", "multi-qa-mpnet-base-dot-v1",
           "paraphrase-multilingual-MiniLM-L12-v2",
           "distiluse-base-multilingual-cased-v2",
           "all-distilroberta-v1", "msmarco-MiniLM-L6-cos-v5" } |->
     [ name     |-> "sentence-transformers/" \o k,
       dims     |-> CASE k \in { "all-mpnet-base-v2", "multi-qa-mpnet-base-dot-v1",
                                 "all-distilroberta-v1" } -> 768
                      [] k = "distiluse-base-multilingual-cased-v2" -> 512
                      [] OTHER -> 384,
       max_len  |-> CASE k = "all-mpnet-base-v2" -> 384
                      [] k \in { "multi-qa-mpnet-base-dot-v1", "all-distilroberta-v1",
                                 "msmarco-MiniLM-L6-cos-v5" } -> 512
                      [] OTHER -> 128,
       category |-> CASE k \in { "all-MiniLM-L6-v2", "paraphrase-MiniLM-L3-v2",
                                 "all-MiniLM-L12-v2" } -> "small"
                      [] k \in { "all-mpnet-base-v2", "multi-qa-mpnet-base-dot-v1" } -> "large"
                      [] k \in { "paraphrase-multilingual-MiniLM-L12-v2",
                                 "distiluse-base-multilingual-cased-v2" } -> "multilingual"
                      [] OTHER -> "specialized" ] ]

\* The shape entry the verifier reads as a dynamic axis ("-1 means dynamic").
Dynamic == -1

\* The default of --output.
DefaultOutput == "./models"

\* args.model when the positional argument is absent (argparse's None).
None == "<None>"

\* os.path.join(a, b) for a relative b.
Join(a, b) == a \o "/" \o b

\* ------------------------------------------------------------ input sets
\* Values of the positional argument tried: absent, empty, two registered
\* keys of different dimensions, and two keys that are not registered (one
\* a registered key in the wrong case).
ModelArgs == { None, "", "all-MiniLM-L6-v2", "all-mpnet-base-v2",
               "all-minilm-l6-v2", "no-such-model" }
\* Values of --output tried.
OutputArgs == { DefaultOutput, "./out" }
\* Every args namespace parse_args can hand to main.
ArgsSpace == [ model : ModelArgs, list : BOOLEAN, output : OutputArgs, no_verify : BOOLEAN ]

\* Declared shapes an inference session may report for one tensor.
Shapes == { <<>>, <<384>>, <<Dynamic, 384>>, <<Dynamic, Dynamic, 384>>,
            <<Dynamic, Dynamic, 768>>, <<Dynamic, Dynamic>>, <<1, 512>> }
\* All lists of at most n shapes.
ShapeLists(n) == UNION { [1..m -> Shapes] : m \in 0..n }
\* Graphs the conversion engine may hand back (their declared outputs).
ExportedGraphs == { << <<Dynamic, Dynamic, 384>> >>,
                    << <<Dynamic, Dynamic, 768>>, <<Dynamic, 384>> >> }
\* File sets model.save_pretrained may write (the library picks the names).
ModelSaveWrites == { {"model.onnx", "config.json"}, {"model_quantized.onnx", "config.json"} }
\* File set tokenizer.save_pretrained writes.
TokenizerSaveWrites == { {"tokenizer.json"} }

\* ------------------------------------------------------------------ state
VARIABLES
  pc,            \* position of the process
  runs,          \* invocations of the script started so far
  args,          \* the parsed command line of this invocation
  fs,            \* filesystem: directory -> [exists, names, graph]
  fs0,           \* the filesystem when this invocation started
  model_key,     \* export_model's parameters and locals
  output_dir,
  verify,
  model,
  tokenizer,
  success,       \* what export_model returned: "none" | "True" | "False"
  manifest,      \* the file names export_model listed
  exit_code,     \* what main returned, -1 while running
  calls,         \* external calls export_model made, in order
  fault,         \* the call the environment made fail, "none" if none
  model_path,    \* verify_onnx_model's parameters and locals
  expected_dims,
  session,
  out_i,
  report,        \* one verdict per output enumerated
  verified,      \* what verify_onnx_model returned: "none" | "True" | "False"
  caller,        \* who called verify_onnx_model
  prev           \* directory -> [ok, names]: its last successful export's manifest

exportVars == << model_key, output_dir, verify, model, tokenizer, success, manifest,
                 calls, fault >>
verifyVars == << model_path, expected_dims, session, out_i, report, verified, caller >>
vars == << pc, runs, args, fs, fs0, exit_code, prev, exportVars, verifyVars >>

NoModel == [ exported |-> FALSE, outputs |-> <<>> ]
NoSession == [ loaded |-> FALSE, outputs |-> <<>> ]

\* The locals of a process that has just started.
FreshLocals ==
  /\ model_key = None /\ output_dir = "" /\ verify = FALSE
  /\ model = NoModel /\ tokenizer = FALSE
  /\ success = "none" /\ manifest = {} /\ exit_code = -1
  /\ calls = <<>> /\ fault = "none"
  /\ model_path = "" /\ expected_dims = 0 /\ session = NoSession
  /\ out_i = 0 /\ report = <<>> /\ verified = "none" /\ caller = "none"

\* output_dir of export_model: os.path.join(output_base_dir, f"{model_key}-onnx").
OutputDir(output_base_dir, key) == Join(output_base_dir, key \o "-onnx")

\* The directories the inputs can name.
AllDirs == { OutputDir(o, k) : o \in OutputArgs, k \in ModelArgs \ {None} }

\* A directory that does not exist; graph is the content of its model.onnx.
Absent == [ exists |-> FALSE, names |-> {}, graph |-> <<>> ]
EmptyFs == [ d \in AllDirs |-> Absent ]
NoPrev == [ d \in AllDirs |-> [ ok |-> FALSE, names |-> {} ] ]

Init ==
  /\ pc = "main"
  /\ runs = 1
  /\ args \in ArgsSpace
  /\ fs = EmptyFs
  /\ fs0 = EmptyFs
  /\ prev = NoPrev
  /\ FreshLocals

\* ------------------------------------------------------------------- main
\* `if not args.model`: None and the empty string are both falsy.
ModelGiven(a) == a.model /= None /\ a.model /= ""

VerifyFlag_Always(a) == TRUE
\* verify=not args.no_verify
VerifyFlag(a) == ~ a.no_verify

ExitCode_AlwaysZero(s) == 0
\* return 0 if success else 1
ExitCode(s) == IF s = "True" THEN 0 ELSE 1

\* if args.list: list_models(); return 0
MainList ==
  /\ pc = "main"
  /\ args.list
  /\ exit_code' = 0
  /\ pc' = "exited"
  /\ UNCHANGED << runs, args, fs, fs0, prev, exportVars, verifyVars >>

\* if not args.model: parser.print_help(); ...; return 1
MainUsage ==
  /\ pc = "main"
  /\ ~ args.list
  /\ ~ ModelGiven(args)
  /\ exit_code' = 1
  /\ pc' = "exited"
  /\ UNCHANGED << runs, args, fs, fs0, prev, exportVars, verifyVars >>

\* success = export_model(args.model, output_base_dir=args.output, verify=not args.no_verify)
MainExport ==
  /\ pc = "main"
  /\ ~ args.list
  /\ ModelGiven(args)
  /\ model_key' = args.model
  /\ verify' = VerifyFlag(args)
  /\ pc' = "export_model"
  /\ UNCHANGED << runs, args, fs, fs0, prev, exit_code, output_dir, model, tokenizer,
                  success, manifest, calls, fault, verifyVars >>

\* return 0 if success else 1
MainReturn ==
  /\ pc = "export_return"
  /\ exit_code' = ExitCode(success)
  /\ pc' = "exited"
  /\ UNCHANGED << runs, args, fs, fs0, prev, exportVars, verifyVars >>

\* ----------------------------------------------------------- export_model
ExportUnknown_CreatesDir ==
  /\ pc = "export_model"
  /\ model_key \notin DOMAIN MODELS
  /\ fs' = [ fs EXCEPT ![OutputDir(args.output, model_key)].exists = TRUE ]
  /\ success' = "False"
  /\ pc' = "export_return"
  /\ UNCHANGED << runs, args, fs0, prev, exit_code, model_key, output_dir, verify,
                  model, tokenizer, manifest, calls, fault, verifyVars >>

\* if model_key not in MODELS: ...; return False
ExportUnknown ==
  /\ pc = "export_model"
  /\ model_key \notin DOMAIN MODELS
  /\ success' = "False"
  /\ pc' = "export_return"
  /\ UNCHANGED << runs, args, fs, fs0, prev, exit_code, model_key, output_dir, verify,
                  model, tokenizer, manifest, calls, fault, verifyVars >>

\* info = MODELS[model_key]; output_dir = os.path.join(...); entering the try block
ExportResolve ==
  /\ pc = "export_model"
  /\ model_key \in DOMAIN MODELS
  /\ output_dir' = OutputDir(args.output, model_key)
  /\ pc' = "makedirs"
  /\ UNCHANGED << runs, args, fs, fs0, prev, exit_code, model_key, verify,
                  model, tokenizer, success, manifest, calls, fault, verifyVars >>

Except_Reraise ==
  /\ success' = success
  /\ pc' = "uncaught"

Except_ReturnTrue ==
  /\ success' = "True"
  /\ pc' = "export_return"

\* except Exception as e: ...; traceback.print_exc(); return False
Except ==
  /\ success' = "False"
  /\ pc' = "export_return"

makedirs_NoExistOk(d, env_ok) ==
  IF env_ok /\ ~ fs[d].exists
    THEN [ ok |-> TRUE, fs |-> [ fs EXCEPT ![d].exists = TRUE ] ]
    ELSE [ ok |-> FALSE, fs |-> fs ]

\* os.makedirs(output_dir, exist_ok=True): an existing directory is not an error.
makedirs(d, env_ok) ==
  IF env_ok
    THEN [ ok |-> TRUE, fs |-> [ fs EXCEPT ![d].exists = TRUE ] ]
    ELSE [ ok |-> FALSE, fs |-> fs ]

\* os.makedirs(output_dir, exist_ok=True)
MakeDirs ==
  /\ pc = "makedirs"
  /\ \E env_ok \in BOOLEAN :
       LET r == makedirs(output_dir, env_ok) IN
       /\ fs' = r.fs
       /\ calls' = Append(calls, "makedirs")
       /\ fault' = IF env_ok THEN fault ELSE "makedirs"
       /\ IF r.ok THEN pc' = "convert" /\ UNCHANGED success ELSE Except
  /\ UNCHANGED << runs, args, fs0, prev, exit_code, model_key, output_dir, verify,
                  model, tokenizer, manifest, verifyVars >>

Convert_Swallow ==
  /\ pc = "convert"
  /\ \E env_ok \in BOOLEAN, g \in ExportedGraphs :
       /\ calls' = Append(calls, "convert")
       /\ fault' = IF env_ok THEN fault ELSE "convert"
       /\ model' = IF env_ok THEN [ exported |-> TRUE, outputs |-> g ] ELSE model
       /\ pc' = "load_tokenizer" /\ UNCHANGED success
  /\ UNCHANGED << runs, args, fs, fs0, prev, exit_code, model_key, output_dir, verify,
                  tokenizer, manifest, verifyVars >>

\* model = ORTModelForFeatureExtraction.from_pretrained(model_name, export=True)
Convert ==
  /\ pc = "convert"
  /\ \E env_ok \in BOOLEAN, g \in ExportedGraphs :
       /\ calls' = Append(calls, "convert")
       /\ fault' = IF env_ok THEN fault ELSE "convert"
       /\ IF env_ok
            THEN /\ model' = [ exported |-> TRUE, outputs |-> g ]
                 /\ pc' = "load_tokenizer" /\ UNCHANGED success
            ELSE /\ model' = model
                 /\ Except
  /\ UNCHANGED << runs, args, fs, fs0, prev, exit_code, model_key, output_dir, verify,
                  tokenizer, manifest, verifyVars >>

\* tokenizer = AutoTokenizer.from_pretrained(model_name)
LoadTokenizer ==
  /\ pc = "load_tokenizer"
  /\ \E env_ok \in BOOLEAN :
       /\ calls' = Append(calls, "load_tokenizer")
       /\ fault' = IF env_ok THEN fault ELSE "load_tokenizer"
       /\ IF env_ok
            THEN /\ tokenizer' = TRUE
                 /\ pc' = "save_model" /\ UNCHANGED success
            ELSE /\ tokenizer' = tokenizer
                 /\ Except
  /\ UNCHANGED << runs, args, fs, fs0, prev, exit_code, model_key, output_dir, verify,
                  model, manifest, verifyVars >>

\* The directory d after a save call wrote the files `written` into it; a
\* written model.onnx holds the graph g.
Written(d, written, g) ==
  [ fs EXCEPT ![d].names = @ \cup written,
              ![d].graph = IF "model.onnx" \in written THEN g ELSE @ ]

\* What a save call that raised may have written before it did.
PartialWrites(written) == SUBSET written \ { written }

\* model.save_pretrained(output_dir)
SaveModel ==
  /\ pc = "save_model"
  /\ \E env_ok \in BOOLEAN, written \in ModelSaveWrites :
       /\ calls' = Append(calls, "save_model")
       /\ fault' = IF env_ok THEN fault ELSE "save_model"
       /\ IF env_ok
            THEN /\ fs' = Written(output_dir, written, model.outputs)
                 /\ pc' = "save_tokenizer" /\ UNCHANGED success
            ELSE /\ \E part \in PartialWrites(written) :
                      fs' = Written(output_dir, part, model.outputs)
                 /\ Except
  /\ UNCHANGED << runs, args, fs0, prev, exit_code, model_key, output_dir, verify,
                  model, tokenizer, manifest, verifyVars >>

\* tokenizer.save_pretrained(output_dir)
SaveTokenizer ==
  /\ pc = "save_tokenizer"
  /\ \E env_ok \in BOOLEAN, written \in TokenizerSaveWrites :
       /\ calls' = Append(calls, "save_tokenizer")
       /\ fault' = IF env_ok THEN fault ELSE "save_tokenizer"
       /\ IF env_ok
            THEN /\ fs' = Written(output_dir, written, <<>>)
                 /\ pc' = "verify?" /\ UNCHANGED success
            ELSE /\ \E part \in PartialWrites(written) :
                      fs' = Written(output_dir, part, <<>>)
                 /\ Except
  /\ UNCHANGED << runs, args, fs0, prev, exit_code, model_key, output_dir, verify,
                  model, tokenizer, manifest, verifyVars >>

\* if verify: model_path = os.path.join(output_dir, "model.onnx");
\*            verify_onnx_model(model_path, info['dims'])
CallVerify ==
  /\ pc = "verify?"
  /\ verify
  /\ calls' = Append(calls, "verify")
  /\ model_path' = Join(output_dir, "model.onnx")
  /\ expected_dims' = MODELS[model_key].dims
  /\ caller' = "export_model"
  /\ pc' = "verify_load"
  /\ UNCHANGED << runs, args, fs, fs0, prev, exit_code, model_key, output_dir, verify,
                  model, tokenizer, success, manifest, fault,
                  session, out_i, report, verified >>

\* if verify: (false) - straight to the success report
SkipVerify ==
  /\ pc = "verify?"
  /\ ~ verify
  /\ pc' = "listdir"
  /\ UNCHANGED << runs, args, fs, fs0, prev, exit_code, exportVars, verifyVars >>

\* for file in os.listdir(output_dir): ... os.path.getsize(file_path) ...; return True
ListFiles ==
  /\ pc = "listdir"
  /\ \E env_ok \in BOOLEAN :
       /\ calls' = Append(calls, "listdir")
       /\ fault' = IF env_ok THEN fault ELSE "listdir"
       /\ IF env_ok /\ fs[output_dir].exists
            THEN /\ manifest' = fs[output_dir].names
                 /\ success' = "True"
                 /\ pc' = "export_return"
            ELSE /\ manifest' = manifest
                 /\ Except
  /\ UNCHANGED << runs, args, fs, fs0, prev, exit_code, model_key, output_dir, verify,
                  model, tokenizer, verifyVars >>

\* ------------------------------------------------------ verify_onnx_model
\* The (directory, file name) pairs a path names.
FilesAt(path) ==
  { p \in AllDirs \X { "model.onnx" } :
      /\ Join(p[1], p[2]) = path
      /\ fs[p[1]].exists
      /\ p[2] \in fs[p[1]].names }

DimsMatch_NoDynamic(output_dims, expected) == output_dims = expected
\* output_dims == expected_dims or output_dims == -1
DimsMatch(output_dims, expected) == output_dims = expected \/ output_dims = Dynamic

\* The line printed for one output: a verdict when len(out.shape) >= 2, none otherwise.
Verdict(shape, expected) ==
  IF Len(shape) >= 2
    THEN IF DimsMatch(shape[Len(shape)], expected) THEN "match" ELSE "mismatch"
    ELSE "none"

\* session = ort.InferenceSession(model_path, ...); a failure to load is caught
\* by `except Exception`, which returns False.
VerifyLoad ==
  /\ pc = "verify_load"
  /\ \E env_ok \in BOOLEAN :
       IF env_ok /\ FilesAt(model_path) /= {}
         THEN /\ session' = [ loaded |-> TRUE,
                              outputs |-> fs[(CHOOSE p \in FilesAt(model_path) : TRUE)[1]].graph ]
              /\ out_i' = 1
              /\ pc' = "verify_outputs"
              /\ UNCHANGED verified
         ELSE /\ verified' = "False"
              /\ pc' = "verify_return"
              /\ UNCHANGED << session, out_i >>
  /\ UNCHANGED << runs, args, fs, fs0, prev, exit_code, exportVars,
                  model_path, expected_dims, report, caller >>

\* for out in outputs: one pass of the loop body
VerifyOutput ==
  /\ pc = "verify_outputs"
  /\ out_i <= Len(session.outputs)
  /\ report' = Append(report, Verdict(session.outputs[out_i], expected_dims))
  /\ out_i' = out_i + 1
  /\ UNCHANGED << pc, runs, args, fs, fs0, prev, exit_code, exportVars,
                  model_path, expected_dims, session, verified, caller >>

\* return True, after the loop
VerifyDone ==
  /\ pc = "verify_outputs"
  /\ out_i > Len(session.outputs)
  /\ verified' = "True"
  /\ pc' = "verify_return"
  /\ UNCHANGED << runs, args, fs, fs0, prev, exit_code, exportVars,
                  model_path, expected_dims, session, out_i, report, caller >>

\* Back in the caller; export_model discards the returned value.
VerifyReturn ==
  /\ pc = "verify_return"
  /\ pc' = IF caller = "export_model" THEN "listdir" ELSE "verify_returned"
  /\ UNCHANGED << runs, args, fs, fs0, prev, exit_code, exportVars, verifyVars >>

\* ------------------------------------------------------------ the process
\* The script is run again, on the filesystem the earlier runs left.
Restart ==
  /\ pc = "exited"
  /\ runs < MaxRuns
  /\ runs' = runs + 1
  /\ args' \in ArgsSpace
  /\ fs0' = fs
  /\ prev' = IF success = "True"
               THEN [ prev EXCEPT ![output_dir] = [ ok |-> TRUE, names |-> manifest ] ]
               ELSE prev
  /\ pc' = "main"
  /\ model_key' = None /\ output_dir' = "" /\ verify' = FALSE
  /\ model' = NoModel /\ tokenizer' = FALSE
  /\ success' = "none" /\ manifest' = {} /\ exit_code' = -1
  /\ calls' = <<>> /\ fault' = "none"
  /\ model_path' = "" /\ expected_dims' = 0 /\ session' = NoSession
  /\ out_i' = 0 /\ report' = <<>> /\ verified' = "none" /\ caller' = "none"
  /\ UNCHANGED fs

Next ==
  \/ MainList \/ MainUsage \/ MainExport \/ MainReturn
  \/ ExportUnknown \/ ExportResolve
  \/ MakeDirs \/ Convert \/ LoadTokenizer \/ SaveModel \/ SaveTokenizer
  \/ CallVerify \/ SkipVerify \/ ListFiles
  \/ VerifyLoad \/ VerifyOutput \/ VerifyDone \/ VerifyReturn
  \/ Restart

Spec == Init /\ [][Next]_vars

\* ----------------------------------------- the verifier called on its own
\* verify_onnx_model(model_path, expected_dims) called directly, on every
\* artifact of at most MaxOutputs outputs and on a path that names no file,
\* with every dimensionality of the registry.
VerifyDir == OutputDir(DefaultOutput, "all-MiniLM-L6-v2")

VerifyInit ==
  /\ pc = "verify_load"
  /\ runs = 1
  /\ args = [ model |-> None, list |-> FALSE, output |-> DefaultOutput, no_verify |-> FALSE ]
  /\ \E present \in BOOLEAN, g \in ShapeLists(MaxOutputs) :
       fs = [ EmptyFs EXCEPT ![VerifyDir] =
                [ exists |-> TRUE,
                  names  |-> IF present THEN {"model.onnx"} ELSE {},
                  graph  |-> IF present THEN g ELSE <<>> ] ]
  /\ fs0 = fs
  /\ prev = NoPrev
  /\ model_key = None /\ output_dir = "" /\ verify = FALSE
  /\ model = NoModel /\ tokenizer = FALSE
  /\ success = "none" /\ manifest = {} /\ exit_code = -1
  /\ calls = <<>> /\ fault = "none"
  /\ model_path = Join(VerifyDir, "model.onnx")
  /\ expected_dims \in { MODELS[k].dims : k \in DOMAIN MODELS }
  /\ session = NoSession /\ out_i = 0 /\ report = <<>> /\ verified = "none"
  /\ caller = "direct"

VerifyNext == VerifyLoad \/ VerifyOutput \/ VerifyDone \/ VerifyReturn

VerifySpec == VerifyInit /\ [][VerifyNext]_vars

\* ----------------------------------------------------------------- claims
\* The external call `op` was made in this invocation / how many times.
Called(op) == \E i \in 1..Len(calls) : calls[i] = op
Count(op) == Cardinality({ i \in 1..Len(calls) : calls[i] = op })
\* Position of the first call of `op` in this invocation, 0 when never called.
FirstCall(op) == IF Called(op) THEN CHOOSE i \in 1..Len(calls) :
                                      calls[i] = op /\ \A j \in 1..(i-1) : calls[j] /= op
                 ELSE 0
\* export_model has been entered with a key of the registry / with another key.
ExportingKnown == model_key /= None /\ model_key \in DOMAIN MODELS
ExportingUnknown == model_key /= None /\ model_key \notin DOMAIN MODELS
\* model.save_pretrained and tokenizer.save_pretrained have both returned.
SavesCompleted ==
  /\ Called("save_model") /\ Called("save_tokenizer")
  /\ fault \notin { "save_model", "save_tokenizer" }
\* export_model has returned.
Returned == pc \in { "export_return", "exited" }

\* C1: export of a key that is not in the registry returns a failed result
\* and does no partial work: no external call is made (no directory creation,
\* conversion, tokenizer load, save, verification or listing), the verifier
\* is never entered, and the filesystem is what it was when the run started.
C1_UnknownModelNoPartialWork ==
  ExportingUnknown =>
    /\ pc \in { "export_model", "export_return", "exited" }
    /\ calls = <<>>
    /\ fs = fs0
    /\ model = NoModel /\ tokenizer = FALSE
    /\ verified = "none" /\ caller = "none"
    /\ (Returned => success = "False")

\* C1 witness: a second run asks for an unregistered key on a filesystem that
\* already holds an exported bundle, and export_model has returned.
C1_Witness ==
  /\ ExportingUnknown
  /\ pc = "export_return"
  /\ success = "False"
  /\ \E d \in AllDirs : fs[d].exists /\ fs[d].names /= {}

\* C2 (as claimed): for a registered key, once both save calls have completed
\* export_model returns success, whatever happens afterwards.
C2_SavedImpliesSuccess ==
  (ExportingKnown /\ SavesCompleted /\ Returned) => success = "True"

\* C3: whichever external call of export_model fails (directory creation,
\* conversion, tokenizer load, either save, the manifest enumeration), the
\* failure is caught: export_model returns False, nothing propagates to the
\* caller, and main exits with code 1.
C3_NoFailureEscapes ==
  fault /= "none" =>
    /\ pc \in { "export_return", "exited" }
    /\ success = "False"
    /\ (pc = "exited" => exit_code = 1)

\* C3 witness: the manifest enumeration failed after both saves and the
\* process has exited with code 1.
C3_Witness ==
  /\ pc = "exited"
  /\ fault = "listdir"
  /\ SavesCompleted
  /\ exit_code = 1

\* C4: a repeated export of a registered key into an output directory that
\* an earlier run exported successfully, with no external call failing,
\* succeeds again, and its manifest contains every file name of the earlier
\* manifest.
C4_RerunSucceedsWithSupersetManifest ==
  (ExportingKnown /\ Returned /\ fault = "none" /\ prev[output_dir].ok) =>
    /\ success = "True"
    /\ prev[output_dir].names \subseteq manifest

\* C4 witness: the second export into the same directory has returned
\* success and lists a file the first export did not.
C4_Witness ==
  /\ ExportingKnown /\ pc = "exited" /\ fault = "none"
  /\ prev[output_dir].ok
  /\ success = "True"
  /\ prev[output_dir].names /= {}
  /\ prev[output_dir].names \subseteq manifest
  /\ manifest /= prev[output_dir].names

\* C5: every enumerated output of rank >= 2 is reported as a match when its
\* trailing dimension equals expected_dims or is -1 (dynamic) and as a
\* mismatch otherwise, whatever the verdicts on the outputs before it; an
\* output of rank < 2 gets no verdict; and a mismatch does not end the
\* enumeration: when the verifier returns True every output was enumerated.
C5_DimensionMatchPolicy ==
  /\ \A i \in 1..Len(report) :
       LET shape == session.outputs[i]
           rank  == Len(shape)
       IN  /\ (rank >= 2 /\ shape[rank] \in { expected_dims, -1 }) => report[i] = "match"
           /\ (rank >= 2 /\ shape[rank] \notin { expected_dims, -1 }) => report[i] = "mismatch"
           /\ rank < 2 => report[i] = "none"
  /\ Len(report) <= Len(session.outputs)
  /\ (session.loaded /\ verified = "True") => Len(report) = Len(session.outputs)

\* C5 witness: a mismatching first output, then a second output whose
\* trailing dimension is dynamic, both reported.
C5_Witness ==
  /\ verified = "True"
  /\ Len(report) = 2
  /\ report[1] = "mismatch"
  /\ report[2] = "match"
  /\ session.outputs[2][Len(session.outputs[2])] = -1

\* C6 (as claimed): for an artifact that loads, the value the verifier
\* returns is true when some output matches, and false when the sole output
\* has a different fixed trailing dimension.
C6_ReturnTellsMatchFromMismatch ==
  (pc = "verify_returned" /\ session.loaded) =>
    /\ (\E i \in 1..Len(report) : report[i] = "match") => verified = "True"
    /\ ( /\ Len(session.outputs) = 1
         /\ Len(session.outputs[1]) >= 2
         /\ session.outputs[1][Len(session.outputs[1])] \notin { expected_dims, -1 } )
       => verified = "False"

\* C7: main returns 0 exactly when --list is given (and then export_model is
\* never entered, even with a model key) or the export succeeded, and 1
\* exactly when no model key is given without --list or the export failed;
\* it returns nothing else.
C7_ExitCodes ==
  pc = "exited" =>
    /\ exit_code \in { 0, 1 }
    /\ exit_code = 0 <=> (args.list \/ success = "True")
    /\ exit_code = 1 <=> ((~ args.list /\ args.model \in { None, "" }) \/ success = "False")
    /\ args.list => (success = "none" /\ model_key = None /\ calls = <<>> /\ fs = fs0)

\* C7 witness: --list together with a registered model key exits 0 without
\* exporting.
C7_Witness ==
  /\ pc = "exited"
  /\ args.list /\ args.model \in DOMAIN MODELS
  /\ exit_code = 0
  /\ success = "none"

\* C8: a failed step aborts every later step: after a failed conversion the
\* tokenizer loader, both saves and the verifier are never called; after a
\* failed tokenizer load neither save nor the verifier; after a failed save
\* not the verifier (nor the other save after a failed model save); the
\* result is failed and no call is made twice.
C8_FailedStepAbortsLaterSteps ==
  /\ fault = "convert" =>
       ~ Called("load_tokenizer") /\ ~ Called("save_model")
       /\ ~ Called("save_tokenizer") /\ ~ Called("verify")
  /\ fault = "load_tokenizer" =>
       ~ Called("save_model") /\ ~ Called("save_tokenizer") /\ ~ Called("verify")
  /\ fault = "save_model" => ~ Called("save_tokenizer") /\ ~ Called("verify")
  /\ fault = "save_tokenizer" => ~ Called("verify")
  /\ fault \in { "convert", "load_tokenizer", "save_model", "save_tokenizer" } =>
       /\ success = "False"
       /\ verified = "none" /\ caller = "none"
       /\ \A i \in 1..Len(calls) : Count(calls[i]) = 1

\* C8 witness: the tokenizer load failed after a successful conversion and
\* export_model has returned.
C8_Witness ==
  /\ fault = "load_tokenizer"
  /\ model.exported
  /\ pc = "export_return"
  /\ success = "False"

\* C9: the verifier is called only with verify true (never under
\* --no-verify) and only after both saves completed; with verify true and
\* both saves completed it is called exactly once, after the saves and
\* before the manifest is listed, on <output dir>/model.onnx of the
\* requested key and with the dims of that key's registry entry.
C9_VerifierInvocation ==
  /\ Count("verify") <= 1
  /\ model_key /= None => verify = ~ args.no_verify
  /\ Called("verify") <=>
       (verify /\ SavesCompleted /\ pc /= "verify?")
  /\ Called("verify") =>
       /\ ~ args.no_verify
       /\ caller = "export_model"
       /\ FirstCall("save_model") < FirstCall("verify")
       /\ FirstCall("save_tokenizer") < FirstCall("verify")
       /\ Called("listdir") => FirstCall("verify") < FirstCall("listdir")
       /\ model_path = args.output \o "/" \o args.model \o "-onnx" \o "/model.onnx"
       /\ expected_dims = MODELS[args.model].dims
  /\ ~ Called("verify") => (verified = "none" /\ caller = "none")

\* C9 witness: an export of the 768-dimensional key into ./out has called the
\* verifier once and gone on to list the manifest.
C9_Witness ==
  /\ Count("verify") = 1
  /\ Called("listdir")
  /\ args.model = "all-mpnet-base-v2" /\ args.output = "./out"
  /\ expected_dims = 768
  /\ model_path = "./out/all-mpnet-base-v2-onnx/model.onnx"
  /\ verified /= "none"

\* C10: export_model returns True only after the output directory was
\* created, the conversion and the tokenizer load returned, and the model
\* save and then the tokenizer save completed, each once, in this invocation
\* and with no call having failed.
C10_SuccessImpliesCompleteBundle ==
  success = "True" =>
    /\ fault = "none"
    /\ Len(calls) >= 5
    /\ SubSeq(calls, 1, 5) = << "makedirs", "convert", "load_tokenizer",
                                "save_model", "save_tokenizer" >>
    /\ \A i \in 1..Len(calls) : Count(calls[i]) = 1
    /\ model.exported /\ tokenizer
    /\ fs[output_dir].exists
    /\ \E w \in ModelSaveWrites : w \subseteq fs[output_dir].names
    /\ \E w \in TokenizerSaveWrites : w \subseteq fs[output_dir].names

\* C10 witness: export_model has returned True without verification.
C10_Witness ==
  /\ pc = "export_return"
  /\ success = "True"
  /\ ~ verify
  /\ manifest /= {}

====
